---- MODULE Spec2Model ----
(***************************************************************************)
(* newmotion.py: a single-threaded capture / detect / notify / display     *)
(* loop.  The model follows the script statement by statement; pc is the   *)
(* position of the one thread of control.                                  *)
(*                                                                         *)
(* Images are one-dimensional rows of pixels.  One model pixel stands for  *)
(* a block of camera pixels: the OpenCV primitives keep their roles        *)
(* (grayscale, smoothing, difference, threshold, dilation, external        *)
(* contours, contour area) at that scale.                                  *)
(***************************************************************************)
EXTENDS Integers, Sequences, FiniteSets

(* ------------------------------ configuration ------------------------- *)

NOTIFICATION_DELAY == 60

MOTION_THRESHOLD == 25

MIN_CONTOUR_AREA == 500

(* ------------------------------ model bounds -------------------------- *)

\* time.time() when the script starts (any epoch time beyond the delay)
StartTime == 100

\* the clock is observed up to this value
MaxTime == 222

\* frames the camera delivers inside the loop before the stream must end
MaxFrames == 2

\* the width of the thresholded rows whose contours the filter loop is tried on
MaxMask == 9

\* the amounts by which the wall clock advances between two statements
TickSteps == {60, 61}

(* ------------------------------ frames -------------------------------- *)

Px(v) == <<v, v, v>>

Solid(w, v) == [i \in 1..w |-> Px(v)]

WithBlock(f, lo, hi, v) == [i \in 1..Len(f) |-> IF lo <= i /\ i <= hi THEN Px(v) ELSE f[i]]

\* an empty dark scene
FrameStatic == Solid(12, 0)

\* one faint object cut by the left border
FrameEdge == WithBlock(FrameStatic, 1, 1, 60)

\* two faint objects apart from each other
FrameTwo == WithBlock(WithBlock(FrameStatic, 3, 3, 60), 10, 10, 60)

\* a bright object at the right of the scene
FrameBright == WithBlock(FrameStatic, 9, 10, 255)

\* a frame of another resolution
FrameSmall == Solid(8, 0)

Frames == {FrameStatic, FrameEdge, FrameTwo, FrameBright, FrameSmall}

(* ------------------------------ image primitives ---------------------- *)

Abs(x) == IF x < 0 THEN -x ELSE x

Max2(a, b) == IF a >= b THEN a ELSE b

\* cv2.cvtColor(frame, COLOR_BGR2GRAY): weighted sum of B, G, R, rounded
cvtColor(frame) ==
    [i \in 1..Len(frame) |->
        (114 * frame[i][1] + 587 * frame[i][2] + 299 * frame[i][3] + 500) \div 1000]

\* index of the neighbour of pixel i at offset d, border reflected (BORDER_REFLECT_101)
Reflect(i, d, w) ==
    IF i + d < 1 THEN 2 - (i + d)
    ELSE IF i + d > w THEN 2 * w - (i + d)
    ELSE i + d

\* cv2.GaussianBlur(gray, (21, 21), 0): the kernel reaches the adjacent model pixels
GaussianBlur(gray) ==
    LET w == Len(gray)
    IN  [i \in 1..w |->
            (gray[Reflect(i, -1, w)] + 2 * gray[i] + gray[Reflect(i, 1, w)] + 2) \div 4]

\* lines 115-116 (and 89-90): the prepared representation of a frame
Prepare(frame) == GaussianBlur(cvtColor(frame))

\* cv2.absdiff raises cv2.error when the two arrays differ in size
SameSize(a, b) == Len(a) = Len(b)

\* a difference step that adds the two images
PixelSum(a, b) == [i \in 1..Len(a) |-> a[i] + b[i]]

\* line 119
absdiff(a, b) == [i \in 1..Len(a) |-> Abs(a[i] - b[i])]

\* cv2.threshold(diff, MOTION_THRESHOLD, 255, THRESH_BINARY)[1]
threshold(diff) == [i \in 1..Len(diff) |-> IF diff[i] > MOTION_THRESHOLD THEN 255 ELSE 0]

\* one pass of the default 3-wide structuring element (the border does not contribute)
DilateOnce(m) ==
    LET w == Len(m)
        at(i) == IF i < 1 \/ i > w THEN 0 ELSE m[i]
    IN  [i \in 1..w |-> Max2(at(i - 1), Max2(at(i), at(i + 1)))]

\* a pipeline without the dilation
NoDilate(m) == m

\* cv2.dilate(thresh, None, iterations=2)
dilate(m) == DilateOnce(DilateOnce(m))

\* cv2.findContours(..., RETR_EXTERNAL, ...): the maximal runs of set pixels, left to right
RECURSIVE ContoursFrom(_, _, _)
ContoursFrom(m, i, start) ==
    IF i > Len(m)
    THEN IF start = 0 THEN <<>> ELSE <<[x |-> start, w |-> i - start]>>
    ELSE IF m[i] = 255
         THEN ContoursFrom(m, i + 1, IF start = 0 THEN i ELSE start)
         ELSE IF start = 0
              THEN ContoursFrom(m, i + 1, 0)
              ELSE <<[x |-> start, w |-> i - start]>> \o ContoursFrom(m, i + 1, 0)

findContours(m) == ContoursFrom(m, 1, 0)

\* cv2.contourArea: a model pixel covers 100 camera pixels
contourArea(c) == c.w * 100

\* cv2.boundingRect(contour)
boundingRect(c) == [x |-> c.x, w |-> c.w]

\* lines 119-125
ThreshOf(g1, g2) == dilate(threshold(absdiff(g1, g2)))

\* the filter loop with <= in place of <
IsNoiseInclusive(c) == contourArea(c) <= MIN_CONTOUR_AREA

\* line 136: a contour the filter loop skips
IsNoise(c) == contourArea(c) < MIN_CONTOUR_AREA

\* lines 130-146: the loop over the contours; the rectangles are those drawn on frame2
RECURSIVE FilterLoop(_, _, _)
FilterLoop(cs, i, acc) ==
    IF i > Len(cs) THEN acc
    ELSE IF IsNoise(cs[i])
         THEN FilterLoop(cs, i + 1, acc)
         ELSE FilterLoop(cs, i + 1,
                         [motion_detected |-> TRUE,
                          motion_count |-> acc.motion_count + 1,
                          rects |-> Append(acc.rects, boundingRect(cs[i]))])

Detect(cs) == FilterLoop(cs, 1, [motion_detected |-> FALSE, motion_count |-> 0, rects |-> <<>>])

(* ------------------------------ notification -------------------------- *)

\* a startup that takes the time of the start as that of the last notification
InitialNotificationTimeNow == StartTime

\* line 93
InitialNotificationTime == 0

\* the cooldown test with >= in place of >
CooldownElapsedInclusive(t, last) == (t - last) >= NOTIFICATION_DELAY

\* line 158: the cooldown test, t being time.time()
CooldownElapsed(t, last) == (t - last) > NOTIFICATION_DELAY

\* line 158: the whole gate
ShouldNotify(md, t, last) == md /\ CooldownElapsed(t, last)

\* send_notification without its password check
PasswordNeverMissing(pw) == FALSE

\* line 37: "if not SENDER_PASSWORD" (None and the empty string are both false)
PasswordMissing(pw) == pw = ""

\* what can happen once the password check has passed: the message is sent, or one of
\* the three except clauses of lines 57-67 is taken
Outcomes == {"sent", "SMTPAuthenticationError", "SMTPException", "Exception"}

\* a send_notification that reports success whatever happened
ReturnValueAlwaysTrue(outcome) == TRUE

\* lines 39, 56, 61, 64, 67: the value send_notification returns
ReturnValue(outcome) == outcome = "sent"

\* the caller forgetting to record the time of a successful send
NextNotificationTimeNever(returned, t, last) == last

\* the caller recording the time whatever send_notification returned
NextNotificationTimeAlways(returned, t, last) == t

\* lines 164-165
NextNotificationTime(returned, t, last) == IF returned THEN t ELSE last

(* ------------------------------ reference ----------------------------- *)

\* the reference following every frame
NextReferenceAlways(md, g1, g2) == g2

\* the reference never following any frame
NextReferenceNever(md, g1, g2) == g1

\* lines 174-175
NextReference(md, g1, g2) == IF ~md THEN g2 ELSE g1

(* ------------------------------ keys ---------------------------------- *)

\* cv2.waitKey(1) & 0xFF: 'q', 's', or anything else (no key, another key)
Keys == {"q", "s", "other"}

(* ------------------------------ control flow -------------------------- *)

\* the script without its isOpened() check
AfterOpenUnchecked(r) == "first_read"

\* lines 75-79: where the isOpened() check leads; r is how VideoCapture(...) ended
AfterOpen(r) == IF r = "opened" THEN "first_read" ELSE "finally"

\* a failed read answered by continue instead of break
AfterFailedReadRetry == "read"

\* lines 108-110: where a failed cap.read() inside the loop leads (break)
AfterFailedRead == "finally"

\* a loop body that polls the keys right after the display
AfterDisplayPollFirst == "key"

\* lines 169-175: after the two imshow calls comes the reference update
AfterDisplay == "refupdate"

\* a key handler whose 'q' branch does not break
AfterKeyIgnoreQuit(k) == "read"

\* a key handler that leaves the loop on 's' as well
AfterKeyBreakOnSave(k) == IF k = "other" THEN "read" ELSE "finally"

\* lines 179-188: where the key poll leads
AfterKey(k) == IF k = "q" THEN "finally" ELSE "read"

\* a send_notification that closes the connection by hand once the message is sent
AfterWithOnSuccessOnly(o) == IF o = "sent" THEN "closed" ELSE "open"

\* line 49: the with statement closes the connection however its block is left
AfterWith(o) == "closed"

\* send_notification without its last except clause
HandledSmtpOnly(o) == o \in {"sent", "SMTPAuthenticationError", "SMTPException"}

\* lines 57-67: the except clauses catch every Exception; a BaseException such as
\* KeyboardInterrupt passes through them
Handled(o) == o \in Outcomes

\* a finally block that forgets the camera
ReleaseNothing(c) == c

\* lines 192-193: release the camera if the name is bound and the handle is open
Release(c) == IF c # "unbound" /\ c = "opened" THEN "released" ELSE c

(* ------------------------------ state --------------------------------- *)

VARIABLES
    pc,                      \* the statement the script is at
    now,                     \* the wall clock, time.time()
    SENDER_PASSWORD,         \* line 19, "" when the variable is not set
    cap,                     \* "unbound", "opened", "unopened" (open failed) or "released"
    ret,                     \* the flag the last cap.read() returned
    frame_count,             \* line 104
    gray1,                   \* the reference
    frame2, gray2,
    contours,                \* line 128
    motion_detected, motion_count,
    rects,                   \* the rectangles drawn on frame2 (line 146)
    status_text,             \* whether the MOTION DETECTED overlay is on frame2 (line 155)
    last_notification_time,
    smtp,                    \* the mail connection: "none", "open" or "closed"
    outcome,                 \* how this iteration's send_notification call ended
    windows,                 \* "none", "shown" or "destroyed"
    snapshot,                \* this iteration wrote a snapshot file (line 187)
    exit_path,               \* why the script left the try block
    send_calls,              \* calls of send_notification in this iteration
    displayed,               \* this iteration reached imshow
    ref_step,                \* this iteration reached the reference update
    key_polled,              \* this iteration reached waitKey
    key,                     \* the key this iteration's waitKey returned, "none" before it
    connected,               \* an SMTP connection was opened at some time
    sent_times,              \* the clock at each message handed to the server
    gate_time,               \* time.time() as read by the last cooldown test
    event_time,              \* gate_time of the last call that returned True
    quiet_frame,             \* the last captured frame found without motion
    prev_outcome,            \* how the call of the iteration before this one ended
    identical                \* every frame read in the loop so far equals the first frame

image == <<frame2, gray2, contours, motion_detected, motion_count, rects, status_text>>

notif == <<last_notification_time, smtp, outcome, send_calls, connected, sent_times,
           gate_time, event_time, prev_outcome>>

ui == <<windows, snapshot, displayed, key_polled, key>>

ref == <<gray1, ref_step, quiet_frame, identical>>

vars == <<pc, now, SENDER_PASSWORD, cap, ret, frame_count, exit_path, image, notif, ui, ref>>

Init ==
    /\ pc = "open"
    /\ now = StartTime
    /\ SENDER_PASSWORD \in {"", "app-password"}
    /\ cap = "unbound"
    /\ ret = TRUE
    /\ frame_count = 0
    /\ gray1 = <<>>
    /\ frame2 = <<>>
    /\ gray2 = <<>>
    /\ contours = <<>>
    /\ motion_detected = FALSE
    /\ motion_count = 0
    /\ rects = <<>>
    /\ status_text = FALSE
    /\ last_notification_time = 0
    /\ smtp = "none"
    /\ outcome = "not_called"
    /\ windows = "none"
    /\ snapshot = FALSE
    /\ exit_path = "none"
    /\ send_calls = 0
    /\ displayed = FALSE
    /\ ref_step = FALSE
    /\ key_polled = FALSE
    /\ key = "none"
    /\ connected = FALSE
    /\ sent_times = <<>>
    /\ gate_time = 0
    /\ event_time = 0
    /\ quiet_frame = <<>>
    /\ prev_outcome = "not_called"
    /\ identical = TRUE

(* ------------------------------ startup ------------------------------- *)

\* lines 72-79: cv2.VideoCapture(CAMERA_URL) and the isOpened() check
OpenCamera ==
    /\ pc = "open"
    /\ \E r \in {"opened", "unopened", "raised"} :
          /\ cap' = IF r = "raised" THEN "unbound" ELSE r
          /\ pc' = AfterOpen(r)
          /\ exit_path' = CASE r = "opened" -> exit_path
                            [] r = "unopened" -> "open_failure"
                            [] r = "raised" -> "fault"
    /\ UNCHANGED <<now, SENDER_PASSWORD, ret, frame_count, image, notif, ui, ref>>

\* lines 82-104: the first frame becomes the reference
ReadFirst ==
    /\ pc = "first_read"
    /\ \/ /\ ret' = FALSE
          /\ cap' = "released"
          /\ pc' = "finally"
          /\ exit_path' = "first_read_failure"
          /\ UNCHANGED <<ref, last_notification_time, frame_count>>
       \/ \E frame1 \in Frames :
             /\ ret' = TRUE
             /\ gray1' = Prepare(frame1)
             /\ quiet_frame' = frame1
             /\ last_notification_time' = InitialNotificationTime
             /\ frame_count' = 0
             /\ pc' = "read"
             /\ identical' = TRUE
             /\ UNCHANGED <<cap, exit_path, ref_step>>
    /\ UNCHANGED <<now, SENDER_PASSWORD, image, ui, smtp, outcome, send_calls, connected,
                   sent_times, gate_time, event_time, prev_outcome>>

(* ------------------------------ main loop ----------------------------- *)

\* lines 107-112
ReadFrame ==
    /\ pc = "read"
    /\ \/ /\ ret' = FALSE
          /\ pc' = AfterFailedRead
          /\ exit_path' = "stream_end"
          /\ UNCHANGED <<frame2, frame_count, outcome, send_calls, displayed, ref_step,
                         key_polled, key, snapshot, prev_outcome, identical>>
       \/ /\ frame_count < MaxFrames
          /\ ret' = TRUE
          /\ \E f \in Frames :
                /\ frame2' = f
                /\ identical' = (identical /\ f = (IF frame_count = 0 THEN quiet_frame
                                                                     ELSE frame2))
          /\ frame_count' = frame_count + 1
          /\ prev_outcome' = outcome
          /\ outcome' = "not_called"
          /\ send_calls' = 0
          /\ displayed' = FALSE
          /\ ref_step' = FALSE
          /\ key_polled' = FALSE
          /\ key' = "none"
          /\ snapshot' = FALSE
          /\ pc' = "detect"
          /\ UNCHANGED exit_path
    /\ UNCHANGED <<now, SENDER_PASSWORD, cap, gray1, quiet_frame, gray2, contours,
                   motion_detected, motion_count, rects, status_text,
                   last_notification_time, smtp, connected, sent_times, gate_time,
                   event_time, windows>>

\* lines 115-128: prepare, difference, threshold, dilate, contours
DetectMotion ==
    /\ pc = "detect"
    /\ LET prepared == Prepare(frame2)
       IN  /\ gray2' = prepared
           /\ IF SameSize(gray1, prepared)
              THEN /\ contours' = findContours(ThreshOf(gray1, prepared))
                   /\ pc' = "filter"
                   /\ UNCHANGED exit_path
              ELSE /\ pc' = "finally"
                   /\ exit_path' = "fault"
                   /\ UNCHANGED contours
    /\ UNCHANGED <<now, SENDER_PASSWORD, cap, ret, frame_count, frame2, motion_detected,
                   motion_count, rects, status_text, notif, ui, ref>>

\* lines 130-155: the filter loop over the contours, the rectangles, the status overlay
FilterContours ==
    /\ pc = "filter"
    /\ LET d == Detect(contours)
       IN  /\ motion_detected' = d.motion_detected
           /\ motion_count' = d.motion_count
           /\ rects' = d.rects
           /\ status_text' = d.motion_detected
           /\ quiet_frame' = IF d.motion_detected THEN quiet_frame ELSE frame2
    /\ pc' = "gate"
    /\ UNCHANGED <<now, SENDER_PASSWORD, cap, ret, frame_count, exit_path, frame2, gray2,
                   contours, notif, ui, gray1, ref_step, identical>>

\* lines 158-161: the notification gate
Gate ==
    /\ pc = "gate"
    /\ gate_time' = IF motion_detected THEN now ELSE gate_time
    /\ IF ShouldNotify(motion_detected, now, last_notification_time)
       THEN /\ pc' = "send"
            /\ send_calls' = send_calls + 1
       ELSE /\ pc' = "display"
            /\ UNCHANGED send_calls
    /\ UNCHANGED <<now, SENDER_PASSWORD, cap, ret, frame_count, exit_path, image, ui, ref,
                   last_notification_time, smtp, outcome, connected, sent_times,
                   event_time, prev_outcome>>

\* lines 37-49: the password check, the message, the connection to the server
SendEnter ==
    /\ pc = "send"
    /\ IF PasswordMissing(SENDER_PASSWORD)
       THEN /\ outcome' = "no_password"
            /\ pc' = "after_send"
            /\ UNCHANGED <<smtp, connected>>
       ELSE \E c \in {"connected", "SMTPException", "Exception"} :
               IF c = "connected"
               THEN /\ smtp' = "open"
                    /\ connected' = TRUE
                    /\ pc' = "smtp"
                    /\ UNCHANGED outcome
               ELSE /\ outcome' = c
                    /\ pc' = "after_send"
                    /\ UNCHANGED <<smtp, connected>>
    /\ UNCHANGED <<now, SENDER_PASSWORD, cap, ret, frame_count, exit_path, image, ui, ref,
                   last_notification_time, send_calls, sent_times, gate_time, event_time,
                   prev_outcome>>

\* lines 50-67: starttls, login, send_message, leaving the with block, the except clauses
SendSmtp ==
    /\ pc = "smtp"
    /\ \E o \in Outcomes \cup {"KeyboardInterrupt"} :
          /\ outcome' = o
          /\ smtp' = AfterWith(o)
          /\ sent_times' = IF o = "sent" THEN Append(sent_times, now) ELSE sent_times
          /\ IF Handled(o)
             THEN pc' = "after_send" /\ UNCHANGED exit_path
             ELSE pc' = "finally" /\ exit_path' = "fault"
    /\ UNCHANGED <<now, SENDER_PASSWORD, cap, ret, frame_count, image, ui, ref,
                   last_notification_time, send_calls, connected, gate_time, event_time,
                   prev_outcome>>

\* lines 164-166: the caller records the time of a send that returned True
AfterSend ==
    /\ pc = "after_send"
    /\ last_notification_time' =
          NextNotificationTime(ReturnValue(outcome), now, last_notification_time)
    /\ event_time' = IF ReturnValue(outcome) THEN gate_time ELSE event_time
    /\ pc' = "display"
    /\ UNCHANGED <<now, SENDER_PASSWORD, cap, ret, frame_count, exit_path, image, ui, ref, smtp,
                   outcome, send_calls, connected, sent_times, gate_time, prev_outcome>>

\* lines 169-170
Display ==
    /\ pc = "display"
    /\ windows' = "shown"
    /\ displayed' = TRUE
    /\ pc' = AfterDisplay
    /\ UNCHANGED <<now, SENDER_PASSWORD, cap, ret, frame_count, exit_path, image, notif, ref,
                   snapshot, key_polled, key>>

\* lines 174-175
UpdateReference ==
    /\ pc = "refupdate"
    /\ gray1' = NextReference(motion_detected, gray1, gray2)
    /\ ref_step' = TRUE
    /\ pc' = "key"
    /\ UNCHANGED <<now, SENDER_PASSWORD, cap, ret, frame_count, exit_path, image, notif, ui,
                   quiet_frame, identical>>

\* lines 178-188
HandleKey ==
    /\ pc = "key"
    /\ \E k \in Keys :
          /\ key_polled' = TRUE
          /\ key' = k
          /\ snapshot' = (k = "s")
          /\ pc' = AfterKey(k)
          /\ exit_path' = IF AfterKey(k) = "finally" THEN "quit" ELSE exit_path
    /\ UNCHANGED <<now, SENDER_PASSWORD, cap, ret, frame_count, image, notif, ref, windows,
                   displayed>>

\* an exception no handler catches, raised by a statement of the loop body (a cv2.error,
\* a KeyboardInterrupt)
LoopPcs == {"read", "detect", "filter", "gate", "send", "after_send", "display", "refupdate", "key"}

Fault ==
    /\ pc \in LoopPcs
    /\ pc' = "finally"
    /\ exit_path' = "fault"
    /\ UNCHANGED <<now, SENDER_PASSWORD, cap, ret, frame_count, image, notif, ui, ref>>

\* lines 190-198
Finally ==
    /\ pc = "finally"
    /\ cap' = Release(cap)
    /\ windows' = "destroyed"
    /\ pc' = "done"
    /\ UNCHANGED <<now, SENDER_PASSWORD, ret, frame_count, exit_path, image, notif, ref,
                   snapshot, displayed, key_polled, key>>

\* the wall clock advances while the script runs; the script reads it at lines 158 and
\* 165 and the mail is handed over in between, so an advance is taken where one of
\* these is next
ClockPcs == {"gate", "smtp", "after_send"}

Tick ==
    /\ pc \in ClockPcs
    /\ \E d \in TickSteps :
          /\ now + d <= MaxTime
          /\ now' = now + d
    /\ UNCHANGED <<pc, SENDER_PASSWORD, cap, ret, frame_count, exit_path, image, notif, ui, ref>>

Next ==
    \/ OpenCamera
    \/ ReadFirst
    \/ ReadFrame
    \/ DetectMotion
    \/ FilterContours
    \/ Gate
    \/ SendEnter
    \/ SendSmtp
    \/ AfterSend
    \/ Display
    \/ UpdateReference
    \/ HandleKey
    \/ Fault
    \/ Finally
    \/ Tick

Spec == Init /\ [][Next]_vars

\* the interpreter does run the finally block once control has reached it
FairSpec == Spec /\ WF_vars(Finally)

\* the filter loop on its own: the first iteration has reached line 130 with the
\* contours of any thresholded row of MaxMask pixels (the loop reads nothing else)
FilterInit ==
    /\ pc = "filter"
    /\ contours \in {findContours(m) : m \in [1..MaxMask -> {0, 255}]}
    /\ now = StartTime
    /\ SENDER_PASSWORD = "app-password"
    /\ cap = "opened"
    /\ ret = TRUE
    /\ frame_count = 1
    /\ gray1 = Prepare(FrameStatic)
    /\ frame2 = FrameStatic
    /\ gray2 = Prepare(FrameStatic)
    /\ motion_detected = FALSE
    /\ motion_count = 0
    /\ rects = <<>>
    /\ status_text = FALSE
    /\ last_notification_time = 0
    /\ smtp = "none"
    /\ outcome = "not_called"
    /\ windows = "none"
    /\ snapshot = FALSE
    /\ exit_path = "none"
    /\ send_calls = 0
    /\ displayed = FALSE
    /\ ref_step = FALSE
    /\ key_polled = FALSE
    /\ key = "none"
    /\ connected = FALSE
    /\ sent_times = <<>>
    /\ gate_time = 0
    /\ event_time = 0
    /\ quiet_frame = FrameStatic
    /\ prev_outcome = "not_called"
    /\ identical = TRUE

FilterNext == FilterContours

FilterSpec == FilterInit /\ [][FilterNext]_vars

(* ------------------------------ properties ---------------------------- *)

\* the statements of an iteration that come after the cooldown test
AfterGate == {"send", "smtp", "after_send", "display", "refupdate", "key"}

\* the ways a send_notification call fails
Failures == {"no_password", "SMTPAuthenticationError", "SMTPException", "Exception"}

\* C1: the step that evaluates line 158 calls send_notification exactly when motion was
\* detected in this iteration and the clock is more than NOTIFICATION_DELAY past
\* last_notification_time; an iteration makes at most one call, and none without motion.
C1_NotificationGate ==
    /\ [][(pc = "gate" /\ pc' \in {"send", "display"}) =>
              ((pc' = "send" /\ send_calls' = send_calls + 1)
                  <=> (motion_detected /\ now - last_notification_time > NOTIFICATION_DELAY))]_vars
    /\ [][(pc = "gate" /\ pc' = "display") => send_calls' = send_calls]_vars
    /\ [][pc # "gate" => (send_calls' = send_calls \/ send_calls' = 0)]_vars
    /\ [](send_calls <= 1)
    /\ [](send_calls > 0 => motion_detected)

\* C1 witness: a motion frame met exactly NOTIFICATION_DELAY after the recorded time,
\* for which no call was made
C1_Witness ==
    /\ pc = "display"
    /\ motion_detected
    /\ send_calls = 0
    /\ last_notification_time > 0
    /\ now - last_notification_time = NOTIFICATION_DELAY

\* C2 (as stated): once a send has succeeded, a motion event whose cooldown test comes
\* more than NOTIFICATION_DELAY after that of the successful event is notified too.
C2_Original ==
    (/\ pc \in AfterGate
     /\ motion_detected
     /\ sent_times # <<>>
     /\ gate_time - event_time > NOTIFICATION_DELAY)
        => send_calls = 1

\* C2 (amended): any two messages handed to the server are more than NOTIFICATION_DELAY
\* apart; a motion event tested less than NOTIFICATION_DELAY after the event of the
\* last successful send is not notified; and a motion event is left without a call
\* only when its test comes no more than NOTIFICATION_DELAY after the time recorded
\* when the last successful send returned.
C2_Cooldown ==
    /\ \A i \in 1..Len(sent_times) : \A j \in 1..Len(sent_times) :
          i < j => sent_times[j] - sent_times[i] > NOTIFICATION_DELAY
    /\ (/\ pc \in AfterGate
        /\ motion_detected
        /\ outcome = "not_called"
        /\ event_time > 0
        /\ gate_time - event_time < NOTIFICATION_DELAY)
           => send_calls = 0
    /\ (/\ pc \in AfterGate
        /\ motion_detected
        /\ send_calls = 0)
           => gate_time - last_notification_time <= NOTIFICATION_DELAY

\* C2 witness: two messages were sent in one run
C2_Witness ==
    /\ Len(sent_times) = 2
    /\ last_notification_time >= sent_times[2]

\* C3: last_notification_time changes only in the step after a send_notification call
\* that returned True, and then to the clock's value; a failed call leaves it as it was.
C3_TimestampFrame ==
    /\ [][last_notification_time' # last_notification_time =>
              (/\ pc = "after_send"
               /\ outcome = "sent"
               /\ last_notification_time' = now)]_vars
    /\ [][(pc = "after_send" /\ pc' = "display" /\ outcome = "sent") =>
              last_notification_time' = now]_vars
    /\ [][(pc = "after_send" /\ outcome \in Failures) =>
              last_notification_time' = last_notification_time]_vars

\* C3 witness: a call that failed at login was followed by the display, the timestamp
\* still being the one an earlier successful send recorded
C3_Witness ==
    /\ pc = "display"
    /\ outcome = "SMTPAuthenticationError"
    /\ send_calls = 1
    /\ last_notification_time > 0
    /\ last_notification_time < now

\* C4: the reference update step sets gray1 to gray2 when no motion was detected and
\* leaves it alone otherwise; no other step of the loop touches gray1.
C4_ReferenceUpdater ==
    /\ [][(pc = "refupdate" /\ pc' = "key") =>
              gray1' = (IF motion_detected THEN gray1 ELSE gray2)]_vars
    /\ [][gray1' # gray1 => pc \in {"first_read", "refupdate"}]_vars

\* C4 witness: the update step was passed with motion, the reference kept
C4_Witness ==
    /\ pc = "key"
    /\ ref_step
    /\ motion_detected
    /\ gray1 # gray2

\* the reference is at rest: between two iterations, or the loop was left by its own
\* break statements
Settled == pc \in {"read", "key"} \/ exit_path \in {"quit", "stream_end"}

\* C5: at rest the reference is the prepared form of the most recent frame found
\* without motion (the first frame when there is none); after a frame without motion
\* it is the prepared form of that frame.
C5_ReferenceTracksQuietFrame ==
    /\ Settled => gray1 = Prepare(quiet_frame)
    /\ (Settled /\ frame_count > 0 /\ ~motion_detected) => gray1 = Prepare(frame2)

\* C5 witness: a quiet frame replaced the first reference, and a later frame with
\* motion left it there
C5_Witness ==
    /\ pc = "read"
    /\ frame_count = 2
    /\ motion_detected
    /\ quiet_frame = FrameEdge
    /\ gray1 = Prepare(FrameEdge)
    /\ gray1 # Prepare(FrameStatic)

\* C6: whichever way the try block is left, the script goes through the finally block
\* and reaches its end, and there the camera handle is not open and destroyAllWindows
\* was called.
C6_Cleanup ==
    /\ [](exit_path # "none" => pc \in {"finally", "done"})
    /\ (exit_path # "none") ~> (pc = "done")
    /\ [](pc = "done" => (exit_path # "none" /\ cap # "opened" /\ windows = "destroyed"))

\* C6 witness: an exception raised in the loop after frames were shown, the camera
\* released by the finally block
C6_Witness ==
    /\ pc = "done"
    /\ exit_path = "fault"
    /\ displayed
    /\ cap = "released"
    /\ windows = "destroyed"

\* C7: after a failed open or a failed first read the loop is never entered: no frame
\* is read or prepared, no window shown, no notification attempted.
C7_StartupFailure ==
    exit_path \in {"open_failure", "first_read_failure"} =>
        /\ pc \in {"finally", "done"}
        /\ frame_count = 0
        /\ frame2 = <<>>
        /\ gray1 = <<>>
        /\ windows # "shown"
        /\ ~displayed
        /\ ~key_polled
        /\ send_calls = 0
        /\ ~connected
        /\ sent_times = <<>>

\* C7 witness: the script ended on a first read that failed
C7_Witness ==
    /\ pc = "done"
    /\ exit_path = "first_read_failure"
    /\ ~ret
    /\ cap = "released"

\* C8: a failed read inside the loop leads straight to the finally block; after it no
\* frame is read, and nothing is detected, notified, displayed, updated or polled.
C8_StreamEnd ==
    /\ [][(pc = "read" /\ ~ret') => pc' = "finally"]_vars
    /\ [](~ret => pc \in {"finally", "done"})
    /\ [][~ret => UNCHANGED <<ret, frame_count, image, notif, ref, snapshot, displayed,
                             key_polled>>]_vars

\* C8 witness: the stream ended after a processed frame
C8_Witness ==
    /\ pc = "done"
    /\ exit_path = "stream_end"
    /\ ~ret
    /\ frame_count = 1
    /\ key_polled

\* the failures the except clauses of send_notification name
Raised == {"SMTPAuthenticationError", "SMTPException", "Exception"}

\* C9: a send that fails with an authentication, SMTP or unexpected error returns to
\* the caller, which records nothing and goes on to the display; an iteration with
\* such a failure that comes back to the read has displayed, passed the reference
\* update and polled the keys.
C9_FailureSwallowed ==
    /\ [][(pc \in {"send", "smtp"} /\ outcome' \in Raised) =>
              (pc' = "after_send" /\ exit_path' = exit_path)]_vars
    /\ [][(pc = "after_send" /\ outcome \in Raised /\ exit_path' = exit_path) =>
              (pc' = "display" \/ pc' = pc)
              /\ last_notification_time' = last_notification_time]_vars
    /\ []((pc = "read" /\ outcome \in Raised) =>
              (displayed /\ ref_step /\ key_polled /\ exit_path = "none"))

\* C9 witness: after an iteration whose send failed once connected, the next frame is
\* being processed
C9_Witness ==
    /\ pc = "detect"
    /\ frame_count = 2
    /\ connected
    /\ smtp = "closed"
    /\ sent_times = <<>>
    /\ last_notification_time = 0

\* C10: without a password no call opens a connection or succeeds, each call ends at
\* the password check, the timestamp keeps its initial value, and the frames shown
\* carry the motion overlays.
C10_NoPassword ==
    SENDER_PASSWORD = "" =>
        /\ outcome \in {"not_called", "no_password"}
        /\ pc # "smtp"
        /\ smtp = "none"
        /\ ~connected
        /\ sent_times = <<>>
        /\ last_notification_time = 0
        /\ (pc \in {"after_send", "display"} /\ send_calls = 1) => outcome = "no_password"
        /\ (displayed /\ motion_detected) =>
              (status_text /\ motion_count > 0 /\ Len(rects) = motion_count)

\* C10 witness: without a password, two iterations in a row called send_notification
\* and the second one went on to show its annotated frame
C10_Witness ==
    /\ SENDER_PASSWORD = ""
    /\ frame_count = 2
    /\ pc = "read"
    /\ outcome = "no_password"
    /\ gate_time > StartTime
    /\ displayed
    /\ status_text
    /\ key_polled

C12_SnapshotFrame ==
    /\ [][(pc = "key" /\ snapshot') =>
              /\ pc' = "read"
              /\ UNCHANGED <<now, SENDER_PASSWORD, cap, ret, frame_count, exit_path, image,
                             notif, ref, windows, displayed>>]_vars
    /\ [][(snapshot' /\ ~snapshot) => pc = "key"]_vars
    /\ []((pc = "read" /\ snapshot) => (exit_path = "none" /\ cap = "opened" /\ key_polled))

\* C12 witness: a snapshot taken of a frame with motion that was notified, the loop
\* back at the read with the reference and the timestamp of before
C12_Witness ==
    /\ pc = "read"
    /\ snapshot
    /\ motion_detected
    /\ Len(rects) > 0
    /\ last_notification_time > 0
    /\ gray1 # gray2
    /\ exit_path = "none"

\* the statements of the while loop, the body of send_notification included
RunningPcs == LoopPcs \cup {"smtp"}

\* C13 (as stated): the loop is left only by the quit key or by a read that fails.
C13_Original ==
    [][(pc \in RunningPcs /\ pc' \notin RunningPcs) =>
          ((pc = "key" /\ key' = "q") \/ (pc = "read" /\ ~ret'))]_vars

\* C13 (amended): the loop is left only for the finally block, by the quit key, by a
\* read that fails, or by an exception no handler catches; waitKey and the test of the
\* read flag each come once in an iteration; and once 'q' was polled the script is in
\* the finally block or past it, and no frame is read, processed, notified or shown.
C13_LoopExits ==
    /\ [][(pc \in RunningPcs /\ pc' \notin RunningPcs) =>
              /\ pc' = "finally"
              /\ \/ pc = "key" /\ key' = "q" /\ exit_path' = "quit"
                 \/ pc = "read" /\ ~ret' /\ exit_path' = "stream_end"
                 \/ exit_path' = "fault"]_vars
    /\ [][(pc = "key" /\ key' = "q") => (pc' = "finally" /\ exit_path' = "quit")]_vars
    /\ [][key' # key => (pc = "key" \/ (pc = "read" /\ ret' /\ key' = "none"))]_vars
    /\ [](pc = "key" => (~key_polled /\ key = "none"))
    /\ [][frame_count' # frame_count => (pc = "read" /\ ret')]_vars
    /\ [][(pc = "read" /\ pc' = "detect") =>
              (ret' /\ frame_count' = frame_count + 1 /\ (frame_count > 0 => key_polled))]_vars
    /\ [](key = "q" => pc \in {"finally", "done"})
    /\ [][key = "q" => UNCHANGED <<ret, frame_count, image, notif, ref, snapshot, displayed,
                                  key_polled, key>>]_vars

\* C13 witness: 'q' was polled in the first iteration, after its frame was notified and
\* shown, and the script ended with that one frame read
C13_Witness ==
    /\ pc = "done"
    /\ key = "q"
    /\ exit_path = "quit"
    /\ frame_count = 1
    /\ send_calls = 1
    /\ displayed
    /\ ref_step

\* C14: after the filter loop, motion_count is the number of contours whose area is at
\* least MIN_CONTOUR_AREA, motion_detected says whether there is one, and the rectangles
\* drawn are the bounding boxes of exactly these contours, in their order; the status
\* overlay is drawn exactly when there is motion.
C14_DetectorFilter ==
    pc = "gate" =>
        LET survivors == SelectSeq(contours, LAMBDA c : contourArea(c) >= MIN_CONTOUR_AREA)
        IN  /\ motion_count = Len(survivors)
            /\ motion_detected <=> motion_count > 0
            /\ Len(rects) = Len(survivors)
            /\ \A i \in 1..Len(survivors) : rects[i] = boundingRect(survivors[i])
            /\ \A i \in 1..Len(contours) :
                  (contourArea(contours[i]) < MIN_CONTOUR_AREA) <=>
                      (\A j \in 1..Len(rects) : rects[j] # boundingRect(contours[i]))
            /\ status_text <=> motion_detected

\* C14 witness: of three contours the one of area exactly MIN_CONTOUR_AREA was kept
\* and the two smaller ones discarded
C14_Witness ==
    /\ pc = "gate"
    /\ Len(contours) = 3
    /\ motion_detected
    /\ motion_count = 1
    /\ Len(rects) = 1
    /\ contourArea(rects[1]) = MIN_CONTOUR_AREA

\* C15: while every frame read in the loop has been equal to the first one, no
\* iteration finds a contour or motion, draws a rectangle or the status overlay, or
\* calls send_notification, no mail is sent, and the reference is the prepared form of
\* that frame.
C15_IdenticalFrames ==
    (identical /\ frame_count > 0) =>
        /\ ~motion_detected
        /\ motion_count = 0
        /\ rects = <<>>
        /\ ~status_text
        /\ pc \notin {"detect", "read"} => contours = <<>>
        /\ send_calls = 0
        /\ outcome = "not_called"
        /\ pc \notin {"send", "smtp", "after_send"}
        /\ ~connected
        /\ sent_times = <<>>
        /\ last_notification_time = 0
        /\ gray1 = Prepare(frame2)
        /\ quiet_frame = frame2

\* C15 witness: the loop has shown the same bright frame twice and is back at the read,
\* the reference being the prepared form of that frame
C15_Witness ==
    /\ identical
    /\ frame_count = MaxFrames
    /\ pc = "read"
    /\ frame2 = FrameBright
    /\ displayed
    /\ ref_step
    /\ key_polled
    /\ gray1 = Prepare(FrameBright)

C17_ConnectionScoped ==
    /\ [](smtp = "open" => pc = "smtp")
    /\ [][(smtp' = "open" /\ smtp # "open") => (pc = "send" /\ pc' = "smtp")]_vars
    /\ [][(pc = "smtp" /\ pc' # "smtp") => smtp' = "closed"]_vars
    /\ [](outcome \in Outcomes \cup Failures => smtp # "open")
    /\ [](pc \in {"read", "detect", "filter", "gate", "finally", "done"} => smtp # "open")

\* C17 witness: a call that failed at login has returned and the iteration has ended,
\* the connection it had opened being closed
C17_Witness ==
    /\ pc = "read"
    /\ connected
    /\ outcome = "SMTPAuthenticationError"
    /\ smtp = "closed"
    /\ key_polled

\* C18 (as stated): at every statement of the loop the reference has the dimensions of
\* the frame the camera delivered to this iteration.
C18_SameDimensions ==
    (pc \in RunningPcs /\ frame_count > 0) => SameSize(gray1, frame2)

\* C19: as long as no send has succeeded, last_notification_time has its initial value
\* 0 and a frame with motion is notified whatever the clock says; so is the first frame
\* with motion of a run, however early it comes.
C19_NoStartupCooldown ==
    /\ []((sent_times = <<>> /\ pc \in RunningPcs) => last_notification_time = 0)
    /\ [][(pc = "gate" /\ motion_detected /\ sent_times = <<>> /\ pc' \in {"send", "display"}) =>
              (pc' = "send" /\ send_calls' = 1)]_vars
    /\ []((pc \in AfterGate /\ motion_detected /\ sent_times = <<>>) => send_calls = 1)

\* C19 witness: after a quiet first frame the second one shows motion, and
\* send_notification is called with no time passed since the start
C19_Witness ==
    /\ pc = "send"
    /\ frame_count = 2
    /\ prev_outcome = "not_called"
    /\ motion_detected
    /\ send_calls = 1
    /\ last_notification_time = 0
    /\ now = StartTime

\* the order of the statements of one iteration
IterationOrder ==
    {<<"read", "detect">>, <<"detect", "filter">>, <<"filter", "gate">>,
     <<"gate", "send">>, <<"gate", "display">>, <<"send", "smtp">>,
     <<"send", "after_send">>, <<"smtp", "after_send">>, <<"after_send", "display">>,
     <<"display", "refupdate">>, <<"refupdate", "key">>, <<"key", "read">>}

\* C20: inside the loop control moves only along read, detection, gate, call, display,
\* reference update, key poll and back to the read; the keys are polled after the
\* reference update, that after the display, and that after the call has returned;
\* no key is polled while send_notification runs; and when 'q' is polled the frame
\* was shown, the reference update passed, and the call, if the gate asked for one,
\* made and returned.
C20_IterationOrder ==
    /\ [][(pc \in RunningPcs /\ pc' # pc /\ pc' # "finally") =>
              <<pc, pc'>> \in IterationOrder]_vars
    /\ [](key_polled => ref_step)
    /\ [](ref_step => displayed)
    /\ []((displayed /\ send_calls = 1) => outcome \in Outcomes \cup Failures)
    /\ [](pc \in {"send", "smtp", "after_send"} => (~key_polled /\ key = "none" /\ ~displayed))
    /\ [][key' # key => pc \in {"key", "read"}]_vars
    /\ [](key = "q" =>
              /\ displayed /\ ref_step
              /\ smtp # "open"
              /\ send_calls = 1 => outcome \in Outcomes \cup Failures
              /\ (motion_detected /\ send_calls = 0) =>
                    gate_time - last_notification_time <= NOTIFICATION_DELAY
              /\ gray1 = Prepare(quiet_frame))

\* C20 witness: 'q' was polled in the second iteration; by then its frame had been
\* notified and shown, and the reference was the quiet frame of the first iteration
C20_Witness ==
    /\ pc = "finally"
    /\ key = "q"
    /\ frame_count = 2
    /\ motion_detected
    /\ outcome = "sent"
    /\ last_notification_time > 0
    /\ displayed
    /\ ref_step
    /\ quiet_frame = FrameEdge
    /\ gray1 = Prepare(FrameEdge)

====
